---------------------------- MODULE Spec2Model ----------------------------
(***************************************************************************)
(* State-machine model of week2/9day/force_key_rotation.py: one run of     *)
(* main() against the three remote collaborators it calls (STS, IAM and    *)
(* Secrets Manager).  Every remote call is one atomic step whose outcome   *)
(* is chosen by the environment.                                           *)
(***************************************************************************)
EXTENDS Integers, Sequences, FiniteSets, TLC

VARIABLES
    plan,                   \* RotationPlan built from the parsed arguments
    pc,                     \* position of main()
    iam_keys,               \* identity system: the user's access keys, in listing order
    sm_versions,            \* secret container: the payloads put so far (last = AWSCURRENT)
    calls,                  \* every remote call issued by the run, in order
    evidence,               \* the evidence dict of main()
    file,                   \* what write_json wrote to out_path, one entry per write
    existing_keys,          \* local: resp["AccessKeyMetadata"]
    old_key_id,             \* local
    new_key_id,             \* local
    new_secret_access_key,  \* local: the raw SecretAccessKey
    exit_code,              \* process exit status, -1 while running
    runs,                   \* two invocations of main(): start instant, arguments, out_path
    disk,                   \* the evidence files on disk: path -> the run that wrote it last
    redact_in,              \* redacted_tail: its argument
    redact_out,             \* redacted_tail: what it returned
    race,                   \* two runs on one user and one secret: the locals of each
    mask_in,                \* mask_akia: its argument
    mask_out                \* mask_akia: what it returned

\* The state of the specifications of two invocations, of redacted_tail and of
\* mask_akia.
Aux == << runs, disk, redact_in, redact_out, race, mask_in, mask_out >>

\* The state of one run of main().
Main == << plan, pc, iam_keys, sm_versions, calls, evidence, file,
           existing_keys, old_key_id, new_key_id, new_secret_access_key, exit_code >>

vars == << Main, Aux >>

(***************************************************************************)
(* Bounds of the model.                                                    *)
(***************************************************************************)
MaxExisting == 2       \* most keys the user holds before the run
MaxDate     == 2       \* CreateDate values 1..MaxDate
MaxCeiling  == 3       \* --max-keys ranges over 0..MaxCeiling
SecretLen   == 5       \* length of a generated SecretAccessKey

(***************************************************************************)
(* Values.                                                                 *)
(***************************************************************************)
\* Python's None for an Optional access-key id.
NoKey == "None"
\* Python's None for an Optional[str] held as a character sequence (its one
\* element is no character, so it equals no string).
None == << "None" >>

\* Access-key ids, in lexicographic order; the user's keys are the first MaxExisting.
KeyNames   == << "AKIA1", "AKIA2", "AKIA3", "AKIA4" >>
KeyIds     == { KeyNames[i] : i \in 1..MaxExisting }
\* The id create_access_key returns: the id of no existing key.
NewKeyId   == "AKIA9"
Alphabet   == { "a", "b" }
Statuses   == { "Active", "Inactive" }

\* The ways a boto3 client call ends: it returns, it raises
\* botocore.exceptions.ClientError (the service answered with an error), or it
\* raises an exception that is no ClientError (no endpoint, no credentials,
\* time-out: the BotoCoreError family).
Outcomes == { "ok", "ClientError", "OtherError" }

RECURSIVE Strings(_)
Strings(n) == IF n = 0 THEN { << >> }
              ELSE { << c >> \o s : c \in Alphabet, s \in Strings(n - 1) }

SecretValues == Strings(SecretLen)

\* "*" * n
Stars(n) == [ i \in 1..n |-> "*" ]

\* value[-k:] for 0 < k <= len(value)
LastChars(value, k) == SubSeq(value, Len(value) - k + 1, Len(value))

redacted_tail_leak(value, keep_last) == value

redacted_tail_short(value, keep_last) ==
    IF value = None THEN None
    ELSE IF keep_last <= 0 THEN Stars(Len(value))
    ELSE IF Len(value) < keep_last THEN Stars(Len(value))
    ELSE Stars(Len(value) - keep_last) \o LastChars(value, keep_last)

redacted_tail(value, keep_last) ==
    IF value = None THEN None
    ELSE IF keep_last <= 0 THEN Stars(Len(value))
    ELSE IF Len(value) <= keep_last THEN Stars(Len(value))
    ELSE Stars(Len(value) - keep_last) \o LastChars(value, keep_last)

pick_old_key_last_tie(keys) ==
    IF keys = << >> THEN NoKey
    ELSE LET i == CHOOSE i \in 1..Len(keys) :
                    /\ \A j \in 1..Len(keys) : keys[i].CreateDate <= keys[j].CreateDate
                    /\ \A j \in (i + 1)..Len(keys) : keys[j].CreateDate > keys[i].CreateDate
         IN keys[i].AccessKeyId

\* sorted(keys, key=CreateDate)[0]: the sort is stable, so among the keys of
\* least CreateDate the first in list order comes first.
pick_old_key(keys) ==
    IF keys = << >> THEN NoKey
    ELSE LET i == CHOOSE i \in 1..Len(keys) :
                    /\ \A j \in 1..Len(keys) : keys[i].CreateDate <= keys[j].CreateDate
                    /\ \A j \in 1..(i - 1) : keys[j].CreateDate > keys[i].CreateDate
         IN keys[i].AccessKeyId

\* AccessKeyMetadata of a key the user holds before the run.
KeyRecords == [ AccessKeyId : KeyIds, CreateDate : 1..MaxDate, Status : { "Active" } ]

\* Lists of at most n keys.
RECURSIVE KeyLists(_)
KeyLists(n) ==
    IF n = 0 THEN { << >> }
    ELSE LET shorter == KeyLists(n - 1)
         IN shorter \cup
            { Append(l, k) : l \in { s \in shorter : Len(s) = n - 1 }, k \in KeyRecords }

\* The listings the identity system can hold: no id twice.
InitialKeyLists ==
    { l \in KeyLists(MaxExisting) :
        \A i, j \in 1..Len(l) : i # j => l[i].AccessKeyId # l[j].AccessKeyId }

Call(op, key, payload, outcome) ==
    [ op |-> op, key |-> key, payload |-> payload, outcome |-> outcome ]

MutatingOps == { "create_access_key", "put_secret_value",
                 "update_access_key", "delete_access_key" }

Skeleton ==
    [ caller_identity |-> << >>,
      precheck        |-> << >>,
      actions         |-> << >>,
      result          |-> << >>,
      errors          |-> << >> ]

Err(step, outcome) == [ step |-> step, error |-> outcome ]

Init ==
    /\ plan \in [ max_keys       : 0..MaxCeiling,
                  dry_run        : BOOLEAN,
                  deactivate_old : BOOLEAN,
                  delete_old     : BOOLEAN,
                  confirm_delete : { "", "DELETE", "delete" } ]
    /\ pc = "args"
    /\ iam_keys \in InitialKeyLists
    /\ sm_versions = << >>
    /\ calls = << >>
    /\ evidence = Skeleton
    /\ file = << >>
    /\ existing_keys = << >>
    /\ old_key_id = NoKey
    /\ new_key_id = NoKey
    /\ new_secret_access_key = None
    /\ exit_code = -1
    /\ runs = << >>
    /\ disk = << >>
    /\ redact_in = None
    /\ redact_out = None
    /\ race = << >>
    /\ mask_in = None
    /\ mask_out = None

(***************************************************************************)
(* Steps of main().                                                        *)
(***************************************************************************)
\* evidence[section][key] = value
Put(ev, section, key, value) ==
    [ ev EXCEPT ![section] = (key :> value) @@ @ ]

\* evidence["errors"].append({"step": step, "error": str(e)})
AddError(ev, step, outcome) ==
    [ ev EXCEPT !.errors = Append(@, Err(step, outcome)) ]

\* write_json(out_path, evidence) followed by return code
WriteAndReturn(ev, code) ==
    /\ evidence' = ev
    /\ file' = Append(file, ev)
    /\ pc' = "done"
    /\ exit_code' = code

\* An exception no except clause of main() matches: the interpreter prints the
\* traceback and exits with status 1; nothing more of main() runs.
Uncaught ==
    /\ pc' = "crashed"
    /\ exit_code' = 1
    /\ UNCHANGED << evidence, file >>

\* The statement order of main(): the step that follows `step` when `step`
\* neither returns nor raises.
StepAfter_retire_first(step) ==
    CASE step = "args"       -> "sts"
      [] step = "sts"        -> "list"
      [] step = "list"       -> "guardrail"
      [] step = "guardrail"  -> "describe"
      [] step = "describe"   -> "dry_run"
      [] step = "dry_run"    -> "create"
      [] step = "create"     -> "deactivate"
      [] step = "deactivate" -> "delete"
      [] step = "delete"     -> "put"
      [] step = "put"        -> "finish"

StepAfter_create_first(step) ==
    CASE step = "args"       -> "sts"
      [] step = "sts"        -> "create"
      [] step = "create"     -> "list"
      [] step = "list"       -> "guardrail"
      [] step = "guardrail"  -> "describe"
      [] step = "describe"   -> "dry_run"
      [] step = "dry_run"    -> "put"
      [] step = "put"        -> "deactivate"
      [] step = "deactivate" -> "delete"
      [] step = "delete"     -> "finish"

StepAfter_late_dry_run(step) ==
    CASE step = "args"       -> "sts"
      [] step = "sts"        -> "list"
      [] step = "list"       -> "guardrail"
      [] step = "guardrail"  -> "describe"
      [] step = "describe"   -> "create"
      [] step = "create"     -> "dry_run"
      [] step = "dry_run"    -> "put"
      [] step = "put"        -> "deactivate"
      [] step = "deactivate" -> "delete"
      [] step = "delete"     -> "finish"

StepAfter(step) ==
    CASE step = "args"       -> "sts"
      [] step = "sts"        -> "list"
      [] step = "list"       -> "guardrail"
      [] step = "guardrail"  -> "describe"
      [] step = "describe"   -> "dry_run"
      [] step = "dry_run"    -> "create"
      [] step = "create"     -> "put"
      [] step = "put"        -> "deactivate"
      [] step = "deactivate" -> "delete"
      [] step = "delete"     -> "finish"

Locals == << existing_keys, old_key_id, new_key_id, new_secret_access_key >>
Remote == << iam_keys, sm_versions >>

\* Lines 127-175: the check of --delete-old, the plan, the clients and the
\* evidence skeleton.  The right operand of the `and` on line 129 reads an
\* attribute the argparse Namespace does not have, so with --delete-old its
\* evaluation raises AttributeError whatever --confirm-delete is; without
\* --delete-old the `and` short-circuits.
ParseArgs ==
    /\ pc = "args"
    /\ IF plan.delete_old
       THEN Uncaught
       ELSE /\ pc' = StepAfter("args")
            /\ UNCHANGED << evidence, file, exit_code >>
    /\ UNCHANGED << Aux, plan, calls, Locals, Remote >>

\* Lines 177-190
GetCallerIdentity ==
    /\ pc = "sts"
    /\ \E outcome \in Outcomes :
        /\ calls' = Append(calls, Call("get_caller_identity", NoKey, None, outcome))
        /\ CASE outcome = "ok" ->
                  /\ evidence' = [ evidence EXCEPT !.caller_identity =
                                     [ Account |-> "account", Arn |-> "arn", UserId |-> "userid" ] ]
                  /\ pc' = StepAfter("sts")
                  /\ UNCHANGED << file, exit_code >>
             [] outcome = "ClientError" ->
                  WriteAndReturn(AddError(evidence, "sts.get_caller_identity", outcome), 1)
             [] OTHER -> Uncaught
    /\ UNCHANGED << Aux, plan, Locals, Remote >>

\* Lines 192-210
ListAccessKeys ==
    /\ pc = "list"
    /\ \E outcome \in Outcomes :
        /\ calls' = Append(calls, Call("list_access_keys", NoKey, None, outcome))
        /\ CASE outcome = "ok" ->
                  /\ existing_keys' = iam_keys
                  /\ evidence' = Put(Put(evidence, "precheck", "existing_keys_count", Len(iam_keys)),
                                     "precheck", "existing_keys", iam_keys)
                  /\ pc' = StepAfter("list")
                  /\ UNCHANGED << file, exit_code >>
             [] outcome = "ClientError" ->
                  /\ WriteAndReturn(AddError(evidence, "iam.list_access_keys", outcome), 1)
                  /\ UNCHANGED existing_keys
             [] OTHER -> Uncaught /\ UNCHANGED existing_keys
    /\ UNCHANGED << Aux, plan, old_key_id, new_key_id, new_secret_access_key, Remote >>

GuardrailAborts_above(count, max_keys) == count > max_keys

\* Line 212
GuardrailAborts(count, max_keys) == count >= max_keys

\* Lines 212-222: the guardrail, then the choice of the old key
Guardrail ==
    /\ pc = "guardrail"
    /\ IF GuardrailAborts(Len(existing_keys), plan.max_keys)
       THEN /\ WriteAndReturn(Put(evidence, "result", "status", "ABORT_TOO_MANY_KEYS"), 3)
            /\ UNCHANGED old_key_id
       ELSE /\ old_key_id' = pick_old_key(existing_keys)
            /\ evidence' = Put(evidence, "precheck", "old_key_access_key_id",
                               pick_old_key(existing_keys))
            /\ pc' = StepAfter("guardrail")
            /\ UNCHANGED << file, exit_code >>
    /\ UNCHANGED << Aux, plan, calls, existing_keys, new_key_id, new_secret_access_key, Remote >>

\* Lines 244-250
PlanOf(old, p) ==
    [ will_create_new_key   |-> TRUE,
      will_put_secret_value |-> TRUE,
      old_key_access_key_id |-> old,
      will_deactivate_old   |-> (old # NoKey /\ p.deactivate_old),
      will_delete_old       |-> (old # NoKey /\ p.delete_old) ]

\* Lines 224-250: describe_secret, then the plan
DescribeSecret ==
    /\ pc = "describe"
    /\ \E outcome \in Outcomes :
        /\ calls' = Append(calls, Call("describe_secret", NoKey, None, outcome))
        /\ CASE outcome = "ok" ->
                  /\ evidence' = Put(Put(evidence, "precheck", "secret_describe", "described"),
                                     "precheck", "plan", PlanOf(old_key_id, plan))
                  /\ pc' = StepAfter("describe")
                  /\ UNCHANGED << file, exit_code >>
             [] outcome = "ClientError" ->
                  WriteAndReturn(
                      Put(AddError(evidence, "secretsmanager.describe_secret", outcome),
                          "result", "status", "ABORT_SECRET_NOT_DESCRIBABLE"), 4)
             [] OTHER -> Uncaught
    /\ UNCHANGED << Aux, plan, Locals, Remote >>

\* Lines 252-258
DryRunExit ==
    /\ pc = "dry_run"
    /\ IF plan.dry_run
       THEN WriteAndReturn(Put(evidence, "result", "status", "DRY_RUN_OK"), 0)
       ELSE /\ pc' = StepAfter("dry_run")
            /\ UNCHANGED << evidence, file, exit_code >>
    /\ UNCHANGED << Aux, plan, calls, Locals, Remote >>

\* Lines 260-279
CreateAccessKey ==
    /\ pc = "create"
    /\ \E outcome \in Outcomes :
        /\ calls' = Append(calls, Call("create_access_key", NoKey, None, outcome))
        /\ CASE outcome = "ok" ->
                  \E secret \in SecretValues :
                    /\ iam_keys' = Append(iam_keys,
                           [ AccessKeyId |-> NewKeyId, CreateDate |-> MaxDate + 1, Status |-> "Active" ])
                    /\ new_key_id' = NewKeyId
                    /\ new_secret_access_key' = secret
                    /\ evidence' = Put(evidence, "actions", "iam_create_access_key",
                           [ new_access_key_id |-> NewKeyId,
                             new_secret_access_key_redacted |-> redacted_tail(secret, 4),
                             create_date |-> MaxDate + 1,
                             status |-> "Active" ])
                    /\ pc' = StepAfter("create")
                    /\ UNCHANGED << file, exit_code >>
             [] outcome = "ClientError" ->
                  /\ WriteAndReturn(
                         Put(AddError(evidence, "iam.create_access_key", outcome),
                             "result", "status", "FAILED_CREATE_ACCESS_KEY"), 5)
                  /\ UNCHANGED << iam_keys, new_key_id, new_secret_access_key >>
             [] OTHER -> Uncaught /\ UNCHANGED << iam_keys, new_key_id, new_secret_access_key >>
    /\ UNCHANGED << Aux, plan, existing_keys, old_key_id, sm_versions >>

\* Lines 283-290
SecretPayload ==
    [ schema_version |-> 1,
      access_key_id |-> new_key_id,
      secret_access_key |-> new_secret_access_key,
      rotated_from_access_key_id |-> old_key_id ]

\* Lines 281-305 and 319-323: put_secret_value; the finally clause drops the
\* raw secret on every way out of the try statement.
PutSecretValue ==
    /\ pc = "put"
    /\ \E outcome \in Outcomes :
        /\ calls' = Append(calls,
               Call("put_secret_value", NoKey, new_secret_access_key, outcome))
        /\ new_secret_access_key' = None
        /\ CASE outcome = "ok" ->
                  /\ sm_versions' = Append(sm_versions, SecretPayload)
                  /\ evidence' = Put(evidence, "actions", "secretsmanager_put_secret_value",
                           [ version_id |-> Len(sm_versions) + 1 ])
                  /\ pc' = StepAfter("put")
                  /\ UNCHANGED << file, exit_code >>
             [] outcome = "ClientError" ->
                  /\ evidence' = Put(AddError(evidence, "secretsmanager.put_secret_value", outcome),
                                     "result", "status", "FAILED_PUT_SECRET_VALUE")
                  /\ pc' = "rollback"
                  /\ UNCHANGED << sm_versions, file, exit_code >>
             [] OTHER -> Uncaught /\ UNCHANGED sm_versions
    /\ UNCHANGED << Aux, plan, iam_keys, existing_keys, old_key_id, new_key_id >>

\* The identity system's keys without the key `id`.
WithoutKey(keys, id) == SelectSeq(keys, LAMBDA k : k.AccessKeyId # id)

\* The identity system's keys with the key `id` made Inactive.
Deactivated(keys, id) ==
    [ i \in 1..Len(keys) |->
        IF keys[i].AccessKeyId = id THEN [ keys[i] EXCEPT !.Status = "Inactive" ] ELSE keys[i] ]

\* Lines 307-318: the rollback inside the except clause of put_secret_value.
\* An exception of delete_access_key that is no ClientError leaves the handler
\* uncaught.
Rollback ==
    /\ pc = "rollback"
    /\ \E outcome \in Outcomes :
        /\ calls' = Append(calls, Call("delete_access_key", new_key_id, None, outcome))
        /\ CASE outcome = "ok" ->
                  /\ iam_keys' = WithoutKey(iam_keys, new_key_id)
                  /\ WriteAndReturn(
                         Put(evidence, "actions", "rollback_delete_new_key",
                             [ ok |-> TRUE, access_key_id |-> new_key_id ]), 6)
             [] outcome = "ClientError" ->
                  /\ WriteAndReturn(
                         Put(evidence, "actions", "rollback_delete_new_key",
                             [ ok |-> FALSE, access_key_id |-> new_key_id, error |-> outcome ]), 6)
                  /\ UNCHANGED iam_keys
             [] OTHER -> Uncaught /\ UNCHANGED iam_keys
    /\ UNCHANGED << Aux, plan, Locals, sm_versions >>

ShouldDeactivate_always(old, p) == old # NoKey

ShouldDeactivate_no_old_check(old, p) == p.deactivate_old

\* Line 326: if old_key_id and plan.deactivate_old
ShouldDeactivate(old, p) == old # NoKey /\ p.deactivate_old

\* Lines 325-336
DeactivateOld ==
    /\ pc = "deactivate"
    /\ IF ShouldDeactivate(old_key_id, plan)
       THEN \E outcome \in Outcomes :
              /\ calls' = Append(calls, Call("update_access_key", old_key_id, None, outcome))
              /\ CASE outcome = "ok" ->
                        /\ iam_keys' = Deactivated(iam_keys, old_key_id)
                        /\ evidence' = Put(evidence, "actions", "iam_update_access_key_inactive",
                               [ ok |-> TRUE, old_access_key_id |-> old_key_id ])
                        /\ pc' = StepAfter("deactivate")
                        /\ UNCHANGED << file, exit_code >>
                   [] outcome = "ClientError" ->
                        /\ evidence' = Put(AddError(evidence, "iam.update_access_key(Inactive)", outcome),
                               "actions", "iam_update_access_key_inactive",
                               [ ok |-> FALSE, old_access_key_id |-> old_key_id ])
                        /\ pc' = StepAfter("deactivate")
                        /\ UNCHANGED << iam_keys, file, exit_code >>
                   [] OTHER -> Uncaught /\ UNCHANGED iam_keys
       ELSE /\ pc' = StepAfter("deactivate")
            /\ UNCHANGED << calls, iam_keys, evidence, file, exit_code >>
    /\ UNCHANGED << Aux, plan, Locals, sm_versions >>

ShouldDelete_always(old, p) == old # NoKey

\* Line 339: if old_key_id and plan.delete_old
ShouldDelete(old, p) == old # NoKey /\ p.delete_old

\* Lines 338-345
DeleteOld ==
    /\ pc = "delete"
    /\ IF ShouldDelete(old_key_id, plan)
       THEN \E outcome \in Outcomes :
              /\ calls' = Append(calls, Call("delete_access_key", old_key_id, None, outcome))
              /\ CASE outcome = "ok" ->
                        /\ iam_keys' = WithoutKey(iam_keys, old_key_id)
                        /\ evidence' = Put(evidence, "actions", "iam_delete_access_key_old",
                               [ ok |-> TRUE, old_access_key_id |-> old_key_id ])
                        /\ pc' = StepAfter("delete")
                        /\ UNCHANGED << file, exit_code >>
                   [] outcome = "ClientError" ->
                        /\ evidence' = Put(AddError(evidence, "iam.delete_access_key(old)", outcome),
                               "actions", "iam_delete_access_key_old",
                               [ ok |-> FALSE, old_access_key_id |-> old_key_id ])
                        /\ pc' = StepAfter("delete")
                        /\ UNCHANGED << iam_keys, file, exit_code >>
                   [] OTHER -> Uncaught /\ UNCHANGED iam_keys
       ELSE /\ pc' = StepAfter("delete")
            /\ UNCHANGED << calls, iam_keys, evidence, file, exit_code >>
    /\ UNCHANGED << Aux, plan, Locals, sm_versions >>

\* Lines 347-362
Finish ==
    /\ pc = "finish"
    /\ WriteAndReturn(
           Put(Put(Put(evidence, "result", "status", "OK"),
                   "result", "new_access_key_id", new_key_id),
               "result", "old_access_key_id", old_key_id), 0)
    /\ UNCHANGED << Aux, plan, calls, Locals, Remote >>

Next ==
    \/ ParseArgs
    \/ GetCallerIdentity
    \/ ListAccessKeys
    \/ Guardrail
    \/ DescribeSecret
    \/ DryRunExit
    \/ CreateAccessKey
    \/ PutSecretValue
    \/ Rollback
    \/ DeactivateOld
    \/ DeleteOld
    \/ Finish

Spec == Init /\ [][Next]_vars

(***************************************************************************)
(* Properties.                                                             *)
(***************************************************************************)
Terminal == pc \in { "done", "crashed" }

\* The positions in `calls` of the calls of `op` that ended with `outcome`.
CallsWith(op, outcomes) ==
    { i \in 1..Len(calls) : calls[i].op = op /\ calls[i].outcome \in outcomes }

Succeeded(op) == CallsWith(op, { "ok" }) # {}
Failed(op)    == CallsWith(op, Outcomes \ { "ok" }) # {}

MutatingCalls == { i \in 1..Len(calls) : calls[i].op \in MutatingOps }

\* The calls that delete the key created by this run.
RollbackCalls ==
    { i \in 1..Len(calls) :
        calls[i].op = "delete_access_key" /\ new_key_id # NoKey /\ calls[i].key = new_key_id }

\* The calls that retire the old key: a deactivation, or a deletion of a key
\* other than the one created by this run.
RetireCalls ==
    { i \in 1..Len(calls) :
        \/ calls[i].op = "update_access_key"
        \/ calls[i].op = "delete_access_key" /\ calls[i].key # new_key_id }

HasStatus(ev, status) ==
    "status" \in DOMAIN ev.result /\ ev.result["status"] = status

\* C1: when create_access_key succeeded and put_secret_value failed, in whatever
\* way, the finished run has issued exactly one delete_access_key of the new
\* key, and the evidence record it wrote has an actions entry for the rollback
\* whose ok field tells whether that delete succeeded.
C1_RollbackOnceAndRecorded ==
    (Terminal /\ Succeeded("create_access_key") /\ Failed("put_secret_value")) =>
        /\ Cardinality(RollbackCalls) = 1
        /\ Len(file) = 1
        /\ "rollback_delete_new_key" \in DOMAIN file[1].actions
        /\ \A i \in RollbackCalls :
             file[1].actions["rollback_delete_new_key"].ok = (calls[i].outcome = "ok")

\* C2: every call that retires the old key comes after a put_secret_value of
\* the same run that returned successfully.
C2_PublishBeforeRetire ==
    \A i \in RetireCalls :
        \E j \in CallsWith("put_secret_value", { "ok" }) : j < i

C2_Witness ==
    /\ CallsWith("update_access_key", { "ok" }) # {}
    /\ Succeeded("put_secret_value")

\* C3: every mutating call comes after a successful get_caller_identity, a
\* successful list_access_keys whose count is below max_keys, and a successful
\* describe_secret, in that run.
C3_ChecksBeforeMutation ==
    \A i \in MutatingCalls :
        /\ \E j \in CallsWith("get_caller_identity", { "ok" }) : j < i
        /\ \E j \in CallsWith("list_access_keys", { "ok" }) : j < i
        /\ \E j \in CallsWith("describe_secret", { "ok" }) : j < i
        /\ Len(existing_keys) < plan.max_keys

C3_Witness ==
    /\ Succeeded("create_access_key")
    /\ Succeeded("describe_secret")
    /\ Len(existing_keys) = 1
    /\ plan.max_keys = 2

\* The guardrail verdict: status ABORT_TOO_MANY_KEYS, exit code 3, no mutating call.
GuardrailVerdict ==
    /\ pc = "done"
    /\ exit_code = 3
    /\ HasStatus(evidence, "ABORT_TOO_MANY_KEYS")
    /\ MutatingCalls = {}

\* C4: once list_access_keys has returned c keys and the guardrail has been
\* evaluated against the ceiling m, the run has ended with the guardrail verdict
\* if and only if c >= m; exit code 3 is the exit code of no other run.
C4_GuardrailIff ==
    /\ (Succeeded("list_access_keys") /\ pc # "guardrail") =>
           (GuardrailVerdict <=> Len(existing_keys) >= plan.max_keys)
    /\ exit_code = 3 => GuardrailVerdict

C4_Witness ==
    /\ GuardrailVerdict
    /\ Len(existing_keys) = 2
    /\ plan.max_keys = 2

\* C5: a dry run takes no step that issues a mutating call, changes the
\* identity system's keys or adds a version to the secret container.
C5_DryRunMutatesNothing ==
    [][ plan.dry_run =>
          /\ iam_keys' = iam_keys
          /\ sm_versions' = sm_versions
          /\ \A i \in 1..Len(calls') : calls'[i].op \notin MutatingOps ]_vars

C5_Witness ==
    /\ plan.dry_run
    /\ pc = "done"
    /\ exit_code = 0
    /\ HasStatus(evidence, "DRY_RUN_OK")
    /\ Len(file) = 1
    /\ plan.deactivate_old
    /\ Len(existing_keys) = 1

\* C6: a finished invocation with --delete-old and a confirmation token other
\* than DELETE has exit code 2 and has issued no remote call.
C6_DeleteNeedsConfirmation ==
    (Terminal /\ plan.delete_old /\ plan.confirm_delete # "DELETE") =>
        /\ exit_code = 2
        /\ calls = << >>

\* The raw SecretAccessKey values this run has held.
RawSecrets ==
    ({ new_secret_access_key } \cup { calls[i].payload : i \in 1..Len(calls) }) \ { None }

\* s occurs in t as a run of consecutive characters.
Occurs(s, t) ==
    \E k \in 0..(Len(t) - Len(s)) : SubSeq(t, k + 1, k + Len(s)) = s

\* The fields of an evidence record that hold secret material.
SecretFields(ev) ==
    IF "iam_create_access_key" \in DOMAIN ev.actions
    THEN { ev.actions["iam_create_access_key"].new_secret_access_key_redacted }
    ELSE {}

\* C7: in every state, so in every terminal one, the evidence dict and every
\* record written hold the SecretAccessKey only as its redacted tail (the same
\* length, every character but the last 4 masked, the raw value in no field),
\* and the only remote call that is given the raw value is put_secret_value.
C7_NoRawSecretInEvidence ==
    /\ \A f \in SecretFields(evidence) \cup UNION { SecretFields(file[n]) : n \in 1..Len(file) } :
         \A raw \in RawSecrets :
           /\ ~Occurs(raw, f)
           /\ Len(f) = Len(raw)
           /\ \A k \in 1..Len(f) :
                f[k] = IF k <= Len(raw) - 4 THEN "*" ELSE raw[k]
    /\ \A i \in 1..Len(calls) :
         calls[i].payload # None => calls[i].op = "put_secret_value"
    /\ Succeeded("create_access_key") =>
         (SecretFields(evidence) # {} /\ RawSecrets # {})

C7_Witness ==
    /\ pc = "done"
    /\ exit_code = 0
    /\ Succeeded("put_secret_value")
    /\ SecretFields(file[1]) = { << "*", "b", "a", "b", "a" >> }
    /\ RawSecrets = { << "a", "b", "a", "b", "a" >> }

\* C8: a finished run that issued a remote call has written its evidence
\* record exactly once, and the record on disk is the evidence as it stands.
C8_EvidenceWrittenOnce ==
    (Terminal /\ calls # << >>) =>
        /\ Len(file) = 1
        /\ file[1] = evidence

\* C9: a finished run whose put_secret_value succeeded has status OK and exit
\* code 0, and each retirement call of it that failed has an actions entry with
\* ok false and an entry in errors.
C9_RetirementFailureNotFatal ==
    (Terminal /\ Succeeded("put_secret_value")) =>
        /\ pc = "done"
        /\ exit_code = 0
        /\ HasStatus(evidence, "OK")
        /\ Failed("update_access_key") =>
             /\ "iam_update_access_key_inactive" \in DOMAIN evidence.actions
             /\ evidence.actions["iam_update_access_key_inactive"].ok = FALSE
             /\ \E n \in 1..Len(evidence.errors) :
                  evidence.errors[n].step = "iam.update_access_key(Inactive)"

\* C10: a finished run whose create_access_key succeeded and whose
\* put_secret_value failed has status FAILED_PUT_SECRET_VALUE and exit code 6,
\* whether its rollback delete succeeded or failed, and has issued no
\* retirement call.
C10_PublishFailureStatus ==
    (Terminal /\ Succeeded("create_access_key") /\ Failed("put_secret_value")) =>
        /\ HasStatus(evidence, "FAILED_PUT_SECRET_VALUE")
        /\ exit_code = 6
        /\ RetireCalls = {}

\* C11: a finished run whose get_caller_identity and list_access_keys succeeded
\* and whose describe_secret failed has status ABORT_SECRET_NOT_DESCRIBABLE and
\* exit code 4, and has issued no mutating call.
C11_DescribeFailureAborts ==
    (Terminal /\ Succeeded("get_caller_identity") /\ Succeeded("list_access_keys")
              /\ Failed("describe_secret")) =>
        /\ pc = "done"
        /\ exit_code = 4
        /\ HasStatus(evidence, "ABORT_SECRET_NOT_DESCRIBABLE")
        /\ MutatingCalls = {}

(***************************************************************************)
(* Two invocations of main() and the evidence paths they derive.           *)
(***************************************************************************)
MaxSecond == 1         \* start instants fall in the seconds 0..MaxSecond
MaxMicro  == 1         \* and in the microseconds 0..MaxMicro of that second

\* datetime.now(timezone.utc)
Instants == [ second : 0..MaxSecond, microsecond : 0..MaxMicro ]

UserNames    == { "alice", "bob" }
EvidenceDirs == { "week2/day9/evidence/rotation", "elsewhere" }

\* now.strftime("%Y%m%dT%H%M%SZ"): the date and the time of day to the second;
\* the format has no field for the fraction of the second.
run_id_of(now) == now.second

\* os.path.join(os.path.join(evidence_dir, f"run_{run_id}"), "result.json")
out_path_of(evidence_dir, run_id) == << evidence_dir, "run_", run_id, "result.json" >>

\* The main() state of a specification that does not run main().
MainOff ==
    /\ plan = << >>
    /\ pc = "off"
    /\ iam_keys = << >>
    /\ sm_versions = << >>
    /\ calls = << >>
    /\ evidence = Skeleton
    /\ file = << >>
    /\ existing_keys = << >>
    /\ old_key_id = NoKey
    /\ new_key_id = NoKey
    /\ new_secret_access_key = None
    /\ exit_code = -1

InitTwoRuns ==
    /\ MainOff
    /\ runs \in [ 1..2 -> [ now          : Instants,
                            user_name    : UserNames,
                            evidence_dir : EvidenceDirs,
                            at           : { "start" },
                            out_path     : { << >> } ] ]
    /\ disk = << >>
    /\ redact_in = None
    /\ redact_out = None
    /\ race = << >>
    /\ mask_in = None
    /\ mask_out = None

\* Lines 133-175 of run r: run_id, run_dir, ensure_dir(run_dir) and out_path
StartRun(r) ==
    /\ runs[r].at = "start"
    /\ runs' = [ runs EXCEPT ![r].at = "running",
                             ![r].out_path = out_path_of(runs[r].evidence_dir,
                                                         run_id_of(runs[r].now)) ]
    /\ UNCHANGED << Main, disk, redact_in, redact_out, race, mask_in, mask_out >>

\* write_json(out_path, evidence) of run r, lines 76-79: open(path, "w")
\* replaces whatever the file held.
WriteEvidence(r) ==
    /\ runs[r].at = "running"
    /\ disk' = [ p \in DOMAIN disk \cup { runs[r].out_path } |->
                   IF p = runs[r].out_path THEN r ELSE disk[p] ]
    /\ runs' = [ runs EXCEPT ![r].at = "done" ]
    /\ UNCHANGED << Main, redact_in, redact_out, race, mask_in, mask_out >>

NextTwoRuns ==
    \E r \in 1..2 : StartRun(r) \/ WriteEvidence(r)

SpecTwoRuns == InitTwoRuns /\ [][NextTwoRuns]_vars

\* C12: once two runs that started in the same instant and share the evidence
\* base directory have both written their evidence, their paths differ and the
\* file of each still holds its own record.
C12_DistinctEvidencePaths ==
    ( /\ \A r \in 1..2 : runs[r].at = "done"
      /\ runs[1].now = runs[2].now
      /\ runs[1].evidence_dir = runs[2].evidence_dir ) =>
        /\ runs[1].out_path # runs[2].out_path
        /\ \A r \in 1..2 : disk[runs[r].out_path] = r

(***************************************************************************)
(* The choice of the old key.                                              *)
(***************************************************************************)
\* The place of an id in the lexicographic order of the ids.
IdRank(id) == CHOOSE n \in 1..Len(KeyNames) : KeyNames[n] = id

\* The run has listed at least one key, passed the guardrail and chosen the old key.
OldKeySelected ==
    /\ Succeeded("list_access_keys")
    /\ pc # "guardrail"
    /\ Len(existing_keys) < plan.max_keys
    /\ existing_keys # << >>

FailedCalls == SelectSeq(calls, LAMBDA c : c.outcome # "ok")

\* The step names under which main() files the failure of a call.
StepNames(c) ==
    CASE c.op = "get_caller_identity" -> { "sts.get_caller_identity" }
      [] c.op = "list_access_keys"    -> { "iam.list_access_keys" }
      [] c.op = "describe_secret"     -> { "secretsmanager.describe_secret" }
      [] c.op = "create_access_key"   -> { "iam.create_access_key" }
      [] c.op = "put_secret_value"    -> { "secretsmanager.put_secret_value" }
      [] c.op = "update_access_key"   -> { "iam.update_access_key(Inactive)" }
      [] c.op = "delete_access_key"   ->
            { "iam.delete_access_key(old)", "iam.delete_access_key(new)",
              "rollback_delete_new_key" }

\* C14: the errors list of every evidence record written holds one entry per
\* remote call of the run that failed, in the order of the failures, each under
\* the step name of its call.
C14_EveryFailureInErrors ==
    \A n \in 1..Len(file) :
        /\ Len(file[n].errors) = Len(FailedCalls)
        /\ \A k \in 1..Len(file[n].errors) :
             k <= Len(FailedCalls) => file[n].errors[k].step \in StepNames(FailedCalls[k])

\* The run issued no remote call after its call of `op`.
LastCallIs(op) == calls # << >> /\ calls[Len(calls)].op = op

\* C15: a finished run whose get_caller_identity or list_access_keys failed
\* issued no remote call after it and has exit code 1; a finished run whose
\* create_access_key failed issued no remote call after it (no publish, no
\* rollback, no retirement) and has exit code 5.
C15_FailureEndsRun ==
    Terminal =>
        /\ Failed("get_caller_identity") =>
             (LastCallIs("get_caller_identity") /\ exit_code = 1)
        /\ Failed("list_access_keys") =>
             (LastCallIs("list_access_keys") /\ exit_code = 1)
        /\ Failed("create_access_key") =>
             (LastCallIs("create_access_key") /\ exit_code = 5)

(***************************************************************************)
(* The successful rotation and the retirement of the old key.              *)
(***************************************************************************)
\* C16: a finished run that is no dry run, has no retire flag, found fewer keys
\* than max_keys and saw every remote call succeed has status OK and exit code
\* 0, has issued exactly one create_access_key and one put_secret_value and no
\* delete_access_key or update_access_key, and its evidence record has both
\* actions.
C16_PlainRotationSucceeds ==
    ( /\ Terminal
      /\ ~plan.dry_run /\ ~plan.deactivate_old /\ ~plan.delete_old
      /\ Succeeded("list_access_keys")
      /\ Len(existing_keys) < plan.max_keys
      /\ \A i \in 1..Len(calls) : calls[i].outcome = "ok" ) =>
        /\ pc = "done"
        /\ exit_code = 0
        /\ Len(file) = 1
        /\ HasStatus(file[1], "OK")
        /\ Cardinality(CallsWith("create_access_key", Outcomes)) = 1
        /\ Cardinality(CallsWith("put_secret_value", Outcomes)) = 1
        /\ CallsWith("delete_access_key", Outcomes) = {}
        /\ CallsWith("update_access_key", Outcomes) = {}
        /\ { "iam_create_access_key", "secretsmanager_put_secret_value" }
               \subseteq DOMAIN file[1].actions

C16_Witness ==
    /\ pc = "done"
    /\ exit_code = 0
    /\ ~plan.dry_run /\ ~plan.deactivate_old /\ ~plan.delete_old
    /\ Len(existing_keys) = 1
    /\ plan.max_keys = 2
    /\ \A i \in 1..Len(calls) : calls[i].outcome = "ok"
    /\ Len(calls) = 5

\* The result statuses main() knows.
ResultStatuses ==
    { "ABORT_TOO_MANY_KEYS", "ABORT_SECRET_NOT_DESCRIBABLE", "DRY_RUN_OK",
      "FAILED_CREATE_ACCESS_KEY", "FAILED_PUT_SECRET_VALUE", "OK" }

\* C17: every evidence record written has a result status, whatever the
\* terminal state of the run that wrote it.
C17_RecordHasStatus ==
    \A n \in 1..Len(file) :
        /\ "status" \in DOMAIN file[n].result
        /\ file[n].result["status"] \in ResultStatuses

\* The calls that deactivate a key, and the calls that delete a key other than
\* the one created by this run.
DeactivateCalls == CallsWith("update_access_key", Outcomes)
DeleteOldCalls ==
    { i \in CallsWith("delete_access_key", Outcomes) : calls[i].key # new_key_id }

\* C18: in a run whose put_secret_value succeeded, once the run is past step 5
\* it has attempted to deactivate a key exactly if the recorded plan has
\* will_deactivate_old, and once it is past step 6 it has attempted to delete an
\* old key exactly if the plan has will_delete_old; every such call names the
\* plan's old_key_access_key_id.
C18_PlanMatchesRetirement ==
    Succeeded("put_secret_value") =>
        LET recorded == evidence.precheck["plan"] IN
        /\ pc \in { "delete", "finish", "done", "crashed" } =>
             (DeactivateCalls # {} <=> recorded.will_deactivate_old)
        /\ pc \in { "finish", "done" } =>
             (DeleteOldCalls # {} <=> recorded.will_delete_old)
        /\ \A i \in DeactivateCalls \cup DeleteOldCalls :
             calls[i].key = recorded.old_key_access_key_id

C18_Witness ==
    /\ pc = "done"
    /\ Succeeded("put_secret_value")
    /\ DeactivateCalls # {}
    /\ evidence.precheck["plan"].will_deactivate_old
    /\ evidence.precheck["plan"].old_key_access_key_id = "AKIA1"
    /\ calls[Len(calls)].key = "AKIA1"

\* C19: every delete_access_key of a run names either the key the run created,
\* and then follows a failed put_secret_value in a run with no successful one,
\* or the old key chosen at precheck; and a run that listed no existing key
\* issues no retirement call.
C19_DeleteTargets ==
    /\ \A i \in CallsWith("delete_access_key", Outcomes) :
         \/ /\ new_key_id # NoKey
            /\ calls[i].key = new_key_id
            /\ \E j \in CallsWith("put_secret_value", Outcomes \ { "ok" }) : j < i
            /\ ~Succeeded("put_secret_value")
         \/ /\ old_key_id # NoKey
            /\ calls[i].key = old_key_id
            /\ Succeeded("put_secret_value")
    /\ (Succeeded("list_access_keys") /\ existing_keys = << >>) => RetireCalls = {}

C19_Witness ==
    /\ pc = "done"
    /\ exit_code = 6
    /\ Cardinality(RollbackCalls) = 1
    /\ Failed("put_secret_value")
    /\ Len(existing_keys) = 1
    /\ plan.deactivate_old

(***************************************************************************)
(* redacted_tail on its own.                                               *)
(***************************************************************************)
MaxValueLen == 6       \* redacted_tail is applied to strings of 0..MaxValueLen characters

\* The default of the parameter keep_last.
KeepLastDefault == 4

\* None and every string of at most MaxValueLen characters.
RedactInputs == { None } \cup UNION { Strings(n) : n \in 0..MaxValueLen }

\* redact_out before redacted_tail has returned: no string and not None.
NotReturned == << "not returned" >>

InitRedact ==
    /\ MainOff
    /\ runs = << >>
    /\ disk = << >>
    /\ redact_in \in RedactInputs
    /\ redact_out = NotReturned
    /\ race = << >>
    /\ mask_in = None
    /\ mask_out = None

\* redacted_tail(value), keep_last left at its default
CallRedactedTail ==
    /\ redact_out = NotReturned
    /\ redact_out' = redacted_tail(redact_in, KeepLastDefault)
    /\ UNCHANGED << Main, runs, disk, redact_in, race, mask_in, mask_out >>

NextRedact == CallRedactedTail

SpecRedact == InitRedact /\ [][NextRedact]_vars

\* C20: for a string, redacted_tail returns a string of the same length; when
\* the string has more than 4 characters every character but the last 4 is "*"
\* and the last 4 are those of the string; when it has 4 or fewer every
\* character is "*"; for None it returns None.
C20_RedactedTail ==
    redact_out # NotReturned =>
        IF redact_in = None THEN redact_out = None
        ELSE /\ redact_out # None
             /\ Len(redact_out) = Len(redact_in)
             /\ \A k \in 1..Len(redact_in) :
                  redact_out[k] =
                    IF Len(redact_in) <= 4 \/ k <= Len(redact_in) - 4
                    THEN "*" ELSE redact_in[k]

C20_Witness ==
    /\ redact_in = << "a", "b", "b", "a", "b", "a" >>
    /\ redact_out = << "*", "*", "b", "a", "b", "a" >>

(***************************************************************************)
(* The remote state a run leaves behind.                                   *)
(***************************************************************************)
\* The run ended with status OK and exit code 0 and was no dry run.
EndedOK ==
    /\ pc = "done"
    /\ exit_code = 0
    /\ ~plan.dry_run
    /\ HasStatus(evidence, "OK")

\* The key `id` is one of `keys` and is Active.
ActiveIn(keys, id) ==
    \E i \in 1..Len(keys) : keys[i].AccessKeyId = id /\ keys[i].Status = "Active"

\* C21: when a run (alone on the identity system and the secret container) has
\* ended with status OK, the current version of the secret holds the id of the
\* key the run created and that key is an Active key of the user; when it has
\* ended in any other way the secret has the versions it had before the run.
C21_SecretMatchesOutcome ==
    Terminal =>
        IF EndedOK
        THEN /\ sm_versions # << >>
             /\ sm_versions[Len(sm_versions)].access_key_id = new_key_id
             /\ ActiveIn(iam_keys, new_key_id)
        ELSE sm_versions = << >>

\* C23: no step of a run (alone on the identity system) raises the number of
\* the user's keys above max_keys: after every step the user holds at most as
\* many keys as before it, or at most max_keys.  So at every point of the run
\* the count is at most the larger of the initial count and max_keys.
C23_KeyCountWithinCeiling ==
    [][ \/ Len(iam_keys') <= Len(iam_keys)
        \/ Len(iam_keys') <= plan.max_keys ]_vars

C23_Witness ==
    /\ pc = "done"
    /\ exit_code = 6
    /\ Len(existing_keys) = 1
    /\ plan.max_keys = 2
    /\ Len(iam_keys) = 2
    /\ CallsWith("delete_access_key", { "ClientError" }) # {}

(***************************************************************************)
(* Two runs of main() on the same user and the same secret.  Each remote   *)
(* call is atomic; the calls of the two runs interleave in any order.  The *)
(* runs share iam_keys and sm_versions; race[r] holds the locals of run r. *)
(***************************************************************************)
\* The ids create_access_key returns to the two runs.
RaceKeyIds == << "AKIA8", "AKIA9" >>

RacePlans == [ max_keys       : 0..MaxCeiling,
               dry_run        : BOOLEAN,
               deactivate_old : BOOLEAN,
               delete_old     : BOOLEAN,
               confirm_delete : { "DELETE" } ]

InitRace ==
    /\ plan = << >>
    /\ pc = "off"
    /\ iam_keys \in InitialKeyLists
    /\ sm_versions = << >>
    /\ calls = << >>
    /\ evidence = Skeleton
    /\ file = << >>
    /\ existing_keys = << >>
    /\ old_key_id = NoKey
    /\ new_key_id = NoKey
    /\ new_secret_access_key = None
    /\ exit_code = -1
    /\ runs = << >>
    /\ disk = << >>
    /\ redact_in = None
    /\ redact_out = None
    /\ mask_in = None
    /\ mask_out = None
    /\ race \in [ 1..2 -> [ plan          : RacePlans,
                            at            : { "args" },
                            existing_keys : { << >> },
                            old_key_id    : { NoKey },
                            new_key_id    : { NoKey },
                            status        : { "" },
                            exit_code     : { -1 } ] ]

\* What the steps of a run leave alone besides the shared remote state.
RaceFrame ==
    UNCHANGED << plan, pc, calls, evidence, file, existing_keys, old_key_id, new_key_id,
                 new_secret_access_key, exit_code, runs, disk, redact_in, redact_out,
                 mask_in, mask_out >>

\* Run r goes on to the step after `step`.
RaceGoOn(r, step) == [ race[r] EXCEPT !.at = StepAfter(step) ]

\* Run r writes its evidence and returns `code`.
RaceReturn(r, status, code) ==
    [ race[r] EXCEPT !.at = "done", !.status = status, !.exit_code = code ]

\* Run r ends with an uncaught exception.
RaceUncaught(r) == [ race[r] EXCEPT !.at = "crashed", !.exit_code = 1 ]

\* Lines 127-175
RaceParseArgs(r) ==
    /\ race[r].at = "args"
    /\ race' = [ race EXCEPT ![r] =
                   IF race[r].plan.delete_old THEN RaceUncaught(r) ELSE RaceGoOn(r, "args") ]
    /\ UNCHANGED Remote
    /\ RaceFrame

\* Lines 177-190
RaceGetCallerIdentity(r) ==
    /\ race[r].at = "sts"
    /\ \E outcome \in Outcomes :
         race' = [ race EXCEPT ![r] =
                     CASE outcome = "ok"          -> RaceGoOn(r, "sts")
                       [] outcome = "ClientError" -> RaceReturn(r, "", 1)
                       [] OTHER                   -> RaceUncaught(r) ]
    /\ UNCHANGED Remote
    /\ RaceFrame

\* Lines 192-210
RaceListAccessKeys(r) ==
    /\ race[r].at = "list"
    /\ \E outcome \in Outcomes :
         race' = [ race EXCEPT ![r] =
                     CASE outcome = "ok" ->
                            [ RaceGoOn(r, "list") EXCEPT !.existing_keys = iam_keys ]
                       [] outcome = "ClientError" -> RaceReturn(r, "", 1)
                       [] OTHER                   -> RaceUncaught(r) ]
    /\ UNCHANGED Remote
    /\ RaceFrame

\* Lines 212-222
RaceGuardrail(r) ==
    /\ race[r].at = "guardrail"
    /\ race' = [ race EXCEPT ![r] =
                   IF GuardrailAborts(Len(race[r].existing_keys), race[r].plan.max_keys)
                   THEN RaceReturn(r, "ABORT_TOO_MANY_KEYS", 3)
                   ELSE [ RaceGoOn(r, "guardrail") EXCEPT
                            !.old_key_id = pick_old_key(race[r].existing_keys) ] ]
    /\ UNCHANGED Remote
    /\ RaceFrame

\* Lines 224-250
RaceDescribeSecret(r) ==
    /\ race[r].at = "describe"
    /\ \E outcome \in Outcomes :
         race' = [ race EXCEPT ![r] =
                     CASE outcome = "ok"          -> RaceGoOn(r, "describe")
                       [] outcome = "ClientError" ->
                            RaceReturn(r, "ABORT_SECRET_NOT_DESCRIBABLE", 4)
                       [] OTHER                   -> RaceUncaught(r) ]
    /\ UNCHANGED Remote
    /\ RaceFrame

\* Lines 252-258
RaceDryRunExit(r) ==
    /\ race[r].at = "dry_run"
    /\ race' = [ race EXCEPT ![r] =
                   IF race[r].plan.dry_run
                   THEN RaceReturn(r, "DRY_RUN_OK", 0)
                   ELSE RaceGoOn(r, "dry_run") ]
    /\ UNCHANGED Remote
    /\ RaceFrame

\* The keys of `keys` that one of the two runs created.
RaceCreated(keys) == SelectSeq(keys, LAMBDA k : \E r \in 1..2 : k.AccessKeyId = RaceKeyIds[r])

\* Lines 260-279: the identity system gives each run a fresh id and a
\* creation date after those of the keys it holds.
RaceCreateAccessKey(r) ==
    /\ race[r].at = "create"
    /\ \E outcome \in Outcomes :
         CASE outcome = "ok" ->
                /\ iam_keys' = Append(iam_keys,
                       [ AccessKeyId |-> RaceKeyIds[r],
                         CreateDate  |-> MaxDate + 1 + Len(RaceCreated(iam_keys)),
                         Status      |-> "Active" ])
                /\ race' = [ race EXCEPT ![r] =
                               [ RaceGoOn(r, "create") EXCEPT !.new_key_id = RaceKeyIds[r] ] ]
           [] outcome = "ClientError" ->
                /\ race' = [ race EXCEPT ![r] = RaceReturn(r, "FAILED_CREATE_ACCESS_KEY", 5) ]
                /\ UNCHANGED iam_keys
           [] OTHER ->
                /\ race' = [ race EXCEPT ![r] = RaceUncaught(r) ]
                /\ UNCHANGED iam_keys
    /\ UNCHANGED sm_versions
    /\ RaceFrame

\* Lines 283-290: the payload of run r; the secret value itself plays no
\* part in the interleaving and is left out.
RaceSecretPayload(r) ==
    [ schema_version |-> 1,
      access_key_id |-> race[r].new_key_id,
      rotated_from_access_key_id |-> race[r].old_key_id ]

\* Lines 292-305: the version put last is the current one.
RacePutSecretValue(r) ==
    /\ race[r].at = "put"
    /\ \E outcome \in Outcomes :
         CASE outcome = "ok" ->
                /\ sm_versions' = Append(sm_versions, RaceSecretPayload(r))
                /\ race' = [ race EXCEPT ![r] = RaceGoOn(r, "put") ]
           [] outcome = "ClientError" ->
                /\ race' = [ race EXCEPT ![r] =
                               [ race[r] EXCEPT !.at = "rollback",
                                                !.status = "FAILED_PUT_SECRET_VALUE" ] ]
                /\ UNCHANGED sm_versions
           [] OTHER ->
                /\ race' = [ race EXCEPT ![r] = RaceUncaught(r) ]
                /\ UNCHANGED sm_versions
    /\ UNCHANGED iam_keys
    /\ RaceFrame

\* Lines 307-318
RaceRollback(r) ==
    /\ race[r].at = "rollback"
    /\ \E outcome \in Outcomes :
         CASE outcome = "ok" ->
                /\ iam_keys' = WithoutKey(iam_keys, race[r].new_key_id)
                /\ race' = [ race EXCEPT ![r] = RaceReturn(r, race[r].status, 6) ]
           [] outcome = "ClientError" ->
                /\ race' = [ race EXCEPT ![r] = RaceReturn(r, race[r].status, 6) ]
                /\ UNCHANGED iam_keys
           [] OTHER ->
                /\ race' = [ race EXCEPT ![r] = RaceUncaught(r) ]
                /\ UNCHANGED iam_keys
    /\ UNCHANGED sm_versions
    /\ RaceFrame

\* Lines 325-336
RaceDeactivateOld(r) ==
    /\ race[r].at = "deactivate"
    /\ IF ShouldDeactivate(race[r].old_key_id, race[r].plan)
       THEN \E outcome \in Outcomes :
              CASE outcome = "ok" ->
                     /\ iam_keys' = Deactivated(iam_keys, race[r].old_key_id)
                     /\ race' = [ race EXCEPT ![r] = RaceGoOn(r, "deactivate") ]
                [] outcome = "ClientError" ->
                     /\ race' = [ race EXCEPT ![r] = RaceGoOn(r, "deactivate") ]
                     /\ UNCHANGED iam_keys
                [] OTHER ->
                     /\ race' = [ race EXCEPT ![r] = RaceUncaught(r) ]
                     /\ UNCHANGED iam_keys
       ELSE /\ race' = [ race EXCEPT ![r] = RaceGoOn(r, "deactivate") ]
            /\ UNCHANGED iam_keys
    /\ UNCHANGED sm_versions
    /\ RaceFrame

\* Lines 338-345
RaceDeleteOld(r) ==
    /\ race[r].at = "delete"
    /\ IF ShouldDelete(race[r].old_key_id, race[r].plan)
       THEN \E outcome \in Outcomes :
              CASE outcome = "ok" ->
                     /\ iam_keys' = WithoutKey(iam_keys, race[r].old_key_id)
                     /\ race' = [ race EXCEPT ![r] = RaceGoOn(r, "delete") ]
                [] outcome = "ClientError" ->
                     /\ race' = [ race EXCEPT ![r] = RaceGoOn(r, "delete") ]
                     /\ UNCHANGED iam_keys
                [] OTHER ->
                     /\ race' = [ race EXCEPT ![r] = RaceUncaught(r) ]
                     /\ UNCHANGED iam_keys
       ELSE /\ race' = [ race EXCEPT ![r] = RaceGoOn(r, "delete") ]
            /\ UNCHANGED iam_keys
    /\ UNCHANGED sm_versions
    /\ RaceFrame

\* Lines 347-362
RaceFinish(r) ==
    /\ race[r].at = "finish"
    /\ race' = [ race EXCEPT ![r] = RaceReturn(r, "OK", 0) ]
    /\ UNCHANGED Remote
    /\ RaceFrame

RaceStep(r) ==
    \/ RaceParseArgs(r)
    \/ RaceGetCallerIdentity(r)
    \/ RaceListAccessKeys(r)
    \/ RaceGuardrail(r)
    \/ RaceDescribeSecret(r)
    \/ RaceDryRunExit(r)
    \/ RaceCreateAccessKey(r)
    \/ RacePutSecretValue(r)
    \/ RaceRollback(r)
    \/ RaceDeactivateOld(r)
    \/ RaceDeleteOld(r)
    \/ RaceFinish(r)

NextRace == \E r \in 1..2 : RaceStep(r)

SpecRace == InitRace /\ [][NextRace]_vars

\* Both runs have ended with status OK.
BothEndedOK ==
    \A r \in 1..2 : race[r].at = "done" /\ race[r].status = "OK" /\ race[r].exit_code = 0

KeyChars ==
    { "0", "1", "2", "3", "4", "5", "6", "7", "8", "9",
      "A", "B", "C", "D", "E", "F", "G", "H", "I", "J", "K", "L", "M",
      "N", "O", "P", "Q", "R", "S", "T", "U", "V", "W", "X", "Y", "Z" }

\* The literal AKIA of the pattern.
KeyPrefix == << "A", "K", "I", "A" >>

\* {16}
KeyBodyLen == 16

\* v[-4:]
KeptLen == 4

\* The length of a match of AKIA_RE.
MatchLen == Len(KeyPrefix) + KeyBodyLen

\* AKIA_RE matches the text s at position i.
AKIA_RE(s, i) ==
    /\ i + MatchLen - 1 <= Len(s)
    /\ SubSeq(s, i, i + Len(KeyPrefix) - 1) = KeyPrefix
    /\ \A j \in (i + Len(KeyPrefix))..(i + MatchLen - 1) : s[j] \in KeyChars

\* f"AKIA_REDACTED_{v[-4:]}"
repl(v) ==
    << "A", "K", "I", "A", "_", "R", "E", "D", "A", "C", "T", "E", "D", "_" >>
        \o LastChars(v, KeptLen)

\* AKIA_RE.sub(repl, s) from position i on: the matches are found from left
\* to right and do not overlap; the text between them is copied.
RECURSIVE sub(_, _)
sub(s, i) ==
    IF i > Len(s) THEN << >>
    ELSE IF AKIA_RE(s, i)
         THEN repl(SubSeq(s, i, i + MatchLen - 1)) \o sub(s, i + MatchLen)
         ELSE << s[i] >> \o sub(s, i + 1)

mask_akia(s) == sub(s, 1)

\* The texts are made of up to MaxChunks pieces: the literal AKIA, four
\* characters of the class that do not start a key, and a character outside
\* the class.
MaxChunks == 9

Chunks == { KeyPrefix, << "Z", "0", "9", "B" >>, << "x" >> }

RECURSIVE Texts(_)
Texts(n) == IF n = 0 THEN { << >> }
            ELSE { c \o t : c \in Chunks, t \in Texts(n - 1) }

MaskInputs == UNION { Texts(n) : n \in 0..MaxChunks }

InitMask ==
    /\ MainOff
    /\ runs = << >>
    /\ disk = << >>
    /\ redact_in = None
    /\ redact_out = None
    /\ race = << >>
    /\ mask_in \in MaskInputs
    /\ mask_out = NotReturned

\* new = mask_akia(data)
CallMaskAkia ==
    /\ mask_out = NotReturned
    /\ mask_out' = mask_akia(mask_in)
    /\ UNCHANGED << Main, runs, disk, redact_in, redact_out, race, mask_in >>

NextMask == CallMaskAkia

SpecMask == InitMask /\ [][NextMask]_vars

\* The text s holds a substring that AKIA_RE matches.
HasKey(s) == \E i \in 1..Len(s) : AKIA_RE(s, i)

\* C24: the output of mask_akia holds no substring matching the access-key
\* pattern (AKIA followed by 16 characters of 0-9 or A-Z), and mask_akia
\* applied to its own output returns that output unchanged.
C24_MaskedAndIdempotent ==
    mask_out # NotReturned =>
        /\ ~ HasKey(mask_out)
        /\ mask_akia(mask_out) = mask_out
=============================================================================
